---------------------------- MODULE Spec2Model ----------------------------
(***************************************************************************)
(* The four InvenTree seeding scripts (seed_categories.py,                 *)
(* seed_locations.py, seed_parts.py, seed_tenants.py) run one after the    *)
(* other against one remote API.  Every action is one HTTP exchange of the *)
(* running script: the request it sends, an answer of the server drawn     *)
(* from the answers the server can give in its state, and the script's     *)
(* handling of that answer up to its next request.                         *)
(***************************************************************************)
EXTENDS Integers, Sequences, FiniteSets, TLC

VARIABLES
    cfg,            \* the server's fixed behaviour (wording, creds, scope, token)
    resources,      \* the remote resources: records [kind, pk, name, parent]
    nextPk,         \* the server's identifier counter
    faults,         \* number of faulty answers the server has given
    levels,         \* the warehouse's number of levels (LEVELS of seed_locations)
    run,            \* ordinal of the running script execution
    script,         \* which script is executing
    pc,             \* poll, auth, basic, load, create, lookup, reload, get, post, exit
    attempt,        \* probes sent by the readiness poll
    session,        \* requests.Session: [auth, header]
    cache,          \* location_cache / categories: name -> pk (0 is None)
    pos,            \* loop variables of the seeding loops
    ids,            \* identifiers threaded from parents to children
    resp,           \* the last answer received
    out,            \* what the handling of the last answer printed / returned
    req,            \* the last request sent in this execution (probes excluded)
    exitCode,       \* -1 while running, then the process exit status
    crashed,        \* the execution ended with an uncaught exception
    prev            \* the previous execution: its script and how far it got

vars == <<cfg, resources, nextPk, faults, levels, run, script, pc, attempt,
          session, cache, pos, ids, resp, out, req, exitCode, crashed, prev>>

---------------------------------------------------------------------------
(* Bounds of the model *)
MaxRuns == 2        \* script executions in one behaviour
MaxFaults == 1      \* faulty answers of the server in one behaviour
MaxLevels == 2      \* warehouse levels explored when the server may fail

(* Compiled-in constants of the scripts *)
COLUMNS_PER_ZONE == 4
LEVELS == 7
columns == 4
WaitRetriesCategories == 30
WaitRetriesLocations == 30
WaitRetriesParts == 15
WaitRetriesTenants == 12

ZONES == <<"A", "B">>
POWER_SUPPLY_COLUMN == "B-4"
zones == <<"A", "B">>

Scripts == {"seed_categories", "seed_locations", "seed_parts", "seed_tenants"}

DEFAULT_CATEGORIES == <<"GPU", "CPU", "PSU", "Motherboard", "SSD", "RAM">>

DEFAULT_TENANTS == << [name |-> "demo", display_name |-> "Demo Tenant"] >>

None == 0

---------------------------------------------------------------------------
(* Text of answers: an error body is a sequence of words; str(error).lower() *)
(* lower-cases each of them and `in` looks for a phrase among them.          *)

LowerWord(w) ==
    CASE w \in {"Already", "ALREADY", "already"} -> "already"
      [] w \in {"Exists", "EXISTS", "exists"} -> "exists"
      [] w \in {"Unique", "UNIQUE", "unique"} -> "unique"
      [] w \in {"Invalid", "invalid"} -> "invalid"
      [] w \in {"Name", "name"} -> "name"
      [] w \in {"Duplicate", "duplicate"} -> "duplicate"
      [] w \in {"Set", "set"} -> "set"
      [] OTHER -> w

lower(body) == [i \in 1..Len(body) |-> LowerWord(body[i])]

PhraseIn(phrase, body) ==
    \E i \in 1..Len(body) :
        /\ i + Len(phrase) - 1 <= Len(body)
        /\ SubSeq(body, i, i + Len(phrase) - 1) = phrase

---------------------------------------------------------------------------
(* The remote API.  cfg fixes, for one behaviour, the text of its          *)
(* uniqueness rejection, whether the admin credentials are valid, whether  *)
(* names are unique per kind or per kind and parent, and what the token    *)
(* endpoint does.  The shape of a list answer (a plain list or a paginated *)
(* object) and the order of the listed resources are free in each answer.  *)

Wordings == { <<"already", "exists">>,
              <<"Name", "Already", "Exists">>,
              <<"must", "make", "a", "unique", "set">>,
              <<"Duplicate", "names">> }

Configs == [wording : Wordings, creds : BOOLEAN, scope : {"name", "parent"},
            token : {"issued", "empty", "unsupported"}]

Resource(kind, pk, name, parent) ==
    [kind |-> kind, pk |-> pk, name |-> name, parent |-> parent]

(* Whether the server takes the session's requests as the admin's. *)
Authorized ==
    IF script = "seed_tenants"
    THEN CASE session.header = "token" -> TRUE
           [] session.header = "tokenNone" -> FALSE
           [] OTHER -> session.auth /\ cfg.creds
    ELSE cfg.creds

Duplicate_never(kind, name, parent) == FALSE

(* Whether the server holds a resource that a create request of this kind, *)
(* name and parent collides with.                                          *)
Duplicate(kind, name, parent) ==
    \E r \in resources :
        /\ r.kind = kind
        /\ r.name = name
        /\ (cfg.scope = "parent" /\ kind \in {"location", "category"})
              => r.parent = parent

CanFail == faults < MaxFaults

(* The answers the server can give to a create request. *)
CreateAnswers(kind, name, parent) ==
    IF ~Authorized
    THEN {[status |-> 401, body |-> <<"Authentication", "required">>, pk |-> None, fault |-> FALSE]}
    ELSE (IF Duplicate(kind, name, parent)
          THEN {[status |-> 400, body |-> cfg.wording, pk |-> None, fault |-> FALSE]}
          ELSE {[status |-> 201, body |-> <<>>, pk |-> nextPk, fault |-> FALSE]})
         \cup
         (IF CanFail
          THEN {[status |-> 400, body |-> <<"Invalid", "name">>, pk |-> None, fault |-> TRUE],
                [status |-> 403, body |-> <<"Permission", "denied">>, pk |-> None, fault |-> TRUE],
                [status |-> 500, body |-> <<"Server", "error">>, pk |-> None, fault |-> TRUE]}
          ELSE {})

(* The server's state after it gave answer r to a create request. *)
Created(r, kind, name, parent) ==
    /\ resources' = IF r.status = 201
                    THEN resources \cup {Resource(kind, r.pk, name, parent)}
                    ELSE resources
    /\ nextPk' = IF r.status = 201 THEN nextPk + 1 ELSE nextPk
    /\ faults' = IF r.fault THEN faults + 1 ELSE faults

RECURSIVE Ascending(_)
Ascending(S) ==
    IF S = {} THEN <<>>
    ELSE LET m == CHOOSE r \in S : \A q \in S : r.pk <= q.pk
         IN <<m>> \o Ascending(S \ {m})

Reverse(s) == [i \in 1..Len(s) |-> s[Len(s) + 1 - i]]

(* The orders in which the server may list the resources S. *)
Listed(S) == {Ascending(S), Reverse(Ascending(S))}

Matching(kind, name, parent) ==
    {r \in resources : /\ r.kind = kind
                       /\ r.name = name
                       /\ parent # None => r.parent = parent}

ListAnswer(status, isList, hasResults, items, fault) ==
    [status |-> status, isList |-> isList, hasResults |-> hasResults,
     items |-> items, fault |-> fault]

(* The answers the server can give to a list request filtered by name. *)
ListAnswers(kind, name, parent) ==
    IF ~Authorized
    THEN {ListAnswer(401, FALSE, FALSE, <<>>, FALSE)}
    ELSE {ListAnswer(200, isList, TRUE, items, FALSE) :
             isList \in BOOLEAN, items \in Listed(Matching(kind, name, parent))}
         \cup
         (IF CanFail
          THEN {ListAnswer(500, FALSE, FALSE, <<>>, TRUE),
                ListAnswer(200, TRUE, FALSE, <<>>, TRUE),
                ListAnswer(200, FALSE, TRUE, <<>>, TRUE),
                ListAnswer(200, FALSE, FALSE, <<>>, TRUE)}
          ELSE {})

(* Python's truth value of a parsed list answer: a non-empty list, or a   *)
(* dict (a paginated object always has keys).                              *)
Truthy(r) == IF r.isList THEN r.items # <<>> ELSE TRUE

---------------------------------------------------------------------------
(* Construction of a seeder and the start of its main(). *)

NoIds == [warehouse_id |-> None, zone_id |-> None, column_id |-> None,
          shelf_id |-> None, cat_id |-> None, group_id |-> None,
          location_id |-> None]

Pos(lvl, zone, col, level) == [lvl |-> lvl, zone |-> zone, col |-> col, level |-> level]

FirstPos(s) ==
    CASE s = "seed_categories" -> Pos("category", 1, 0, 0)
      [] s = "seed_locations" -> Pos("root", 0, 0, 0)
      [] s = "seed_parts" -> Pos("category", 1, 0, 0)
      [] s = "seed_tenants" -> Pos("group", 0, 0, 1)

NewSession(s) == [auth |-> s # "seed_tenants", header |-> "none"]

NoResp == [status |-> -1]

NoReq == [method |-> "none"]

Construct(s) ==
    /\ script' = s
    /\ pc' = "poll"
    /\ attempt' = 0
    /\ session' = NewSession(s)
    /\ cache' = << >>
    /\ pos' = FirstPos(s)
    /\ ids' = NoIds
    /\ resp' = NoResp
    /\ out' = "start"
    /\ req' = NoReq
    /\ exitCode' = -1
    /\ crashed' = FALSE

Request(method, kind, name, parent) ==
    [method |-> method, kind |-> kind, name |-> name, parent |-> parent]

(* sys.exit(code), or falling off the end of main(). *)
Exit(code) == pc' = "exit" /\ exitCode' = code

(* An uncaught exception: traceback, exit status 1. *)
Raise == pc' = "exit" /\ exitCode' = 1 /\ crashed' = TRUE

---------------------------------------------------------------------------
(* Readiness poll: wait_for_api of the three class-based scripts and the   *)
(* for/else loop at the head of TenantSeeder.run.                          *)

ProbeStatuses == {200, 401, 403, 503, 0}    \* 0: the request raised

max_retries(s) ==
    CASE s = "seed_categories" -> WaitRetriesCategories
      [] s = "seed_locations" -> WaitRetriesLocations
      [] s = "seed_parts" -> WaitRetriesParts
      [] s = "seed_tenants" -> WaitRetriesTenants

AcceptedStatus(s, status) ==
    IF s = "seed_tenants" THEN status = 200 ELSE status \in {200, 401, 403}

(* for attempt in range(max_retries): whether another probe follows the  *)
(* a probes sent so far and the one just answered.                         *)
more_attempts_always_one_more(a, s) == a < max_retries(s)

more_attempts(a, s) == a + 1 < max_retries(s)

(* main(): the seeder is abandoned when wait_for_api returned False. *)
api_unavailable_goes_on == pc' = "auth" /\ UNCHANGED exitCode

api_unavailable == Exit(1)

Probe ==
    /\ pc = "poll"
    /\ \E status \in ProbeStatuses :
        /\ resp' = [status |-> status]
        /\ IF AcceptedStatus(script, status)
           THEN /\ pc' = "auth"
                /\ attempt' = 0
                /\ out' = "ready"
                /\ UNCHANGED exitCode
           ELSE IF more_attempts(attempt, script)
           THEN /\ attempt' = attempt + 1
                /\ out' = "retrying"
                /\ UNCHANGED <<pc, exitCode>>
           ELSE /\ attempt' = attempt + 1
                /\ out' = "unavailable"
                /\ api_unavailable
    /\ UNCHANGED <<cfg, resources, nextPk, faults, levels, run, script,
                   session, cache, pos, ids, req, crashed, prev>>

---------------------------------------------------------------------------
(* Authentication *)

TokenAnswer(status, token) == [status |-> status, token |-> token]

(* GET /user/token/ with the session's basic credentials. *)
GetTokenAnswers ==
    IF ~cfg.creds THEN {TokenAnswer(401, FALSE)}
    ELSE CASE cfg.token = "issued" -> {TokenAnswer(200, TRUE)}
           [] cfg.token = "empty" -> {TokenAnswer(200, FALSE)}
           [] cfg.token = "unsupported" -> {TokenAnswer(404, FALSE)}

get_api_token ==
    /\ pc = "auth"
    /\ script # "seed_tenants"
    /\ \E r \in GetTokenAnswers :
        /\ resp' = r
        /\ IF r.status = 200 /\ r.token
           THEN session' = [session EXCEPT !.header = "token"] /\ out' = "token"
           ELSE session' = session /\ out' = "basic auth"
    /\ req' = Request("GET", "token", "", None)
    /\ pc' = IF script = "seed_parts" THEN "load" ELSE "create"
    /\ UNCHANGED <<cfg, resources, nextPk, faults, levels, run, script,
                   attempt, cache, pos, ids, exitCode, crashed, prev>>

(* POST /user/token/ with the credentials in the body; 0: the request   *)
(* raised, which the server's fault budget allows.                         *)
PostTokenAnswers ==
    (IF CanFail THEN {TokenAnswer(0, FALSE)} ELSE {}) \cup
    CASE cfg.token = "empty" -> {TokenAnswer(200, FALSE)}
      [] cfg.token = "unsupported" -> {TokenAnswer(405, FALSE)}
      [] cfg.token = "issued" ->
            IF cfg.creds THEN {TokenAnswer(200, TRUE)} ELSE {TokenAnswer(401, FALSE)}

authenticate ==
    /\ pc = "auth"
    /\ script = "seed_tenants"
    /\ \E r \in PostTokenAnswers :
        /\ resp' = r
        /\ faults' = IF r.status = 0 THEN faults + 1 ELSE faults
        /\ IF r.status = 200
           THEN /\ session' = [session EXCEPT
                                 !.header = IF r.token THEN "token" ELSE "tokenNone"]
                /\ out' = "token"
                /\ pc' = "get"
           ELSE /\ session' = [session EXCEPT !.auth = TRUE]
                /\ out' = "token failed"
                /\ pc' = "basic"
    /\ req' = Request("POST", "token", "", None)
    /\ UNCHANGED <<cfg, resources, nextPk, levels, run, script,
                   attempt, cache, pos, ids, exitCode, crashed, prev>>

(* GET /user/me/ with basic credentials; 0: the request raised. *)
MeAnswers ==
    {IF cfg.creds THEN 200 ELSE 401} \cup (IF CanFail THEN {0} ELSE {})

(* authenticate(): if resp.status_code == 200: return True *)
basic_accepted(status) == status = 200

authenticate_basic ==
    /\ pc = "basic"
    /\ \E status \in MeAnswers :
        /\ resp' = [status |-> status]
        /\ faults' = IF status = 0 THEN faults + 1 ELSE faults
        /\ IF basic_accepted(status)
           THEN out' = "basic auth" /\ pc' = "get" /\ UNCHANGED exitCode
           ELSE out' = "auth failed" /\ Exit(1)
    /\ req' = Request("GET", "me", "", None)
    /\ UNCHANGED <<cfg, resources, nextPk, levels, run, script,
                   attempt, session, cache, pos, ids, crashed, prev>>

---------------------------------------------------------------------------
(* seed_locations.py: InvenTreeSeeder.seed_warehouse walks                 *)
(* Warehouse -> Zone -> Column -> Shelf -> Bin A, Bin B.                   *)

column_name(p) == ZONES[p.zone] \o "-" \o ToString(p.col)

shelf_name_by_identifier(p) == ToString(ids.column_id) \o "-" \o ToString(p.level)

shelf_name(p) == column_name(p) \o "-" \o ToString(p.level)

is_power_supply_unhyphenated(p) == column_name(p) = "B4"

is_power_supply(p) == column_name(p) = POWER_SUPPLY_COLUMN

LocationName(p) ==
    CASE p.lvl = "root" -> "Warehouse"
      [] p.lvl = "zone" -> "Zone-" \o ZONES[p.zone]
      [] p.lvl = "column" -> column_name(p)
      [] p.lvl = "shelf" -> shelf_name(p)
      [] p.lvl = "binA" -> shelf_name(p) \o "-A"
      [] p.lvl = "binB" -> shelf_name(p) \o "-B"

LocationParent_flat(p, i) == IF p.lvl = "root" THEN None ELSE i.warehouse_id

LocationParent(p, i) ==
    CASE p.lvl = "root" -> None
      [] p.lvl = "zone" -> i.warehouse_id
      [] p.lvl = "column" -> i.zone_id
      [] p.lvl = "shelf" -> i.column_id
      [] p.lvl \in {"binA", "binB"} -> i.shelf_id

NextZone(p) ==
    IF p.zone < Len(ZONES) THEN Pos("zone", p.zone + 1, 0, 0) ELSE Pos("end", 0, 0, 0)

NextColumn(p) ==
    IF p.col < COLUMNS_PER_ZONE THEN Pos("column", p.zone, p.col + 1, 0) ELSE NextZone(p)

NextLevel(p) ==
    IF p.level < levels THEN Pos("shelf", p.zone, p.col, p.level + 1) ELSE NextColumn(p)

(* seed_warehouse giving up at the first zone that could not be created. *)
LocationNext_zone_fatal(p, ok) ==
    CASE p.lvl = "root" -> IF ok THEN Pos("zone", 1, 0, 0) ELSE Pos("abort", 0, 0, 0)
      [] p.lvl = "zone" -> IF ok THEN Pos("column", p.zone, 1, 0) ELSE Pos("abort", 0, 0, 0)
      [] p.lvl = "column" -> IF ok THEN Pos("shelf", p.zone, p.col, 1) ELSE NextColumn(p)
      [] p.lvl = "shelf" -> IF ok /\ ~is_power_supply(p)
                            THEN Pos("binA", p.zone, p.col, p.level)
                            ELSE NextLevel(p)
      [] p.lvl = "binA" -> Pos("binB", p.zone, p.col, p.level)
      [] p.lvl = "binB" -> NextLevel(p)

(* The node seed_warehouse turns to after create_location returned for p; *)
(* ok is the truth value of what it returned.                              *)
LocationNext(p, ok) ==
    CASE p.lvl = "root" -> IF ok THEN Pos("zone", 1, 0, 0) ELSE Pos("abort", 0, 0, 0)
      [] p.lvl = "zone" -> IF ok THEN Pos("column", p.zone, 1, 0) ELSE NextZone(p)
      [] p.lvl = "column" -> IF ok THEN Pos("shelf", p.zone, p.col, 1) ELSE NextColumn(p)
      [] p.lvl = "shelf" -> IF ok /\ ~is_power_supply(p)
                            THEN Pos("binA", p.zone, p.col, p.level)
                            ELSE NextLevel(p)
      [] p.lvl = "binA" -> Pos("binB", p.zone, p.col, p.level)
      [] p.lvl = "binB" -> NextLevel(p)

LocationIds(p, i, result) ==
    CASE p.lvl = "root" -> [i EXCEPT !.warehouse_id = result]
      [] p.lvl = "zone" -> [i EXCEPT !.zone_id = result]
      [] p.lvl = "column" -> [i EXCEPT !.column_id = result]
      [] p.lvl = "shelf" -> [i EXCEPT !.shelf_id = result]
      [] OTHER -> i

(* seed_warehouse after create_location returned `result` (None: nothing). *)
seed_warehouse(result) ==
    LET ok == result # None
        q == LocationNext(pos, ok)
    IN /\ pos' = q
       /\ ids' = IF ok THEN LocationIds(pos, ids, result) ELSE ids
       /\ CASE q.lvl = "abort" -> Exit(1)
            [] q.lvl = "end" -> Exit(0)
            [] OTHER -> pc' = "create" /\ UNCHANGED exitCode

IsConflictLocation_case_sensitive(r) ==
    r.status = 400 /\ PhraseIn(<<"already", "exists">>, r.body)

(* elif response.status_code == 400: "already exists" in str(error).lower() *)
IsConflictLocation(r) ==
    r.status = 400 /\ PhraseIn(<<"already", "exists">>, lower(r.body))

created_location_lost(r) == None

(* What create_location returns for a 201 answer: the location, by its pk. *)
created_location(r) == r.pk

location_cache_forgets(c, name, pk) == c

(* self.location_cache[name] = location["pk"] in create_location, and      *)
(* self.location_cache[name] = loc.get("pk") in _get_existing_location.    *)
location_cache(c, name, pk) == (name :> pk) @@ c

create_location ==
    /\ pc = "create"
    /\ script = "seed_locations"
    /\ LET name == LocationName(pos)
           parent_id == LocationParent(pos, ids)
       IN /\ req' = Request("POST", "location", name, parent_id)
          /\ \E r \in CreateAnswers("location", name, parent_id) :
              /\ Created(r, "location", name, parent_id)
              /\ resp' = r
              /\ IF r.status = 201
                 THEN /\ cache' = location_cache(cache, name, r.pk)
                      /\ out' = "created"
                      /\ seed_warehouse(created_location(r))
                 ELSE IF IsConflictLocation(r)
                 THEN /\ out' = "exists"
                      /\ pc' = "lookup"
                      /\ UNCHANGED <<cache, pos, ids, exitCode>>
                 ELSE /\ out' = "failed"
                      /\ UNCHANGED cache
                      /\ seed_warehouse(None)
    /\ UNCHANGED <<cfg, levels, run, script, attempt, session, crashed, prev>>

(* The list a lookup reads its first element from:                         *)
(* locations[0] if isinstance(locations, list) else                        *)
(* locations.get("results", [{}])[0]; {} has no pk.                        *)
Results(r) ==
    IF r.isList THEN r.items
    ELSE IF r.hasResults THEN r.items
    ELSE << [pk |-> None] >>

get_existing_location ==
    /\ pc = "lookup"
    /\ script = "seed_locations"
    /\ LET name == LocationName(pos)
       IN /\ req' = Request("GET", "location", name, None)
          /\ \E r \in ListAnswers("location", name, None) :
              /\ resp' = r
              /\ faults' = IF r.fault THEN faults + 1 ELSE faults
              /\ IF r.status = 200 /\ Truthy(r)
                 THEN IF Results(r) = << >>
                      THEN /\ out' = "IndexError"
                           /\ Raise
                           /\ UNCHANGED <<cache, pos, ids>>
                      ELSE /\ cache' = location_cache(cache, name, Results(r)[1].pk)
                           /\ out' = IF Results(r)[1].pk # None THEN "found" ELSE "nothing"
                           /\ seed_warehouse(Results(r)[1].pk)
                           /\ UNCHANGED crashed
                 ELSE /\ out' = "nothing"
                      /\ seed_warehouse(None)
                      /\ UNCHANGED <<cache, crashed>>
    /\ UNCHANGED <<cfg, resources, nextPk, levels, run, script, attempt, session, prev>>

---------------------------------------------------------------------------
(* seed_categories.py: CategorySeeder.seed_categories *)

(* seed_categories after create_category returned; it always returns True. *)
seed_categories ==
    IF pos.zone < Len(DEFAULT_CATEGORIES)
    THEN pos' = Pos("category", pos.zone + 1, 0, 0) /\ pc' = "create" /\ UNCHANGED exitCode
    ELSE pos' = Pos("end", 0, 0, 0) /\ Exit(0)

IsConflict(r) ==
    /\ r.status = 400
    /\ \/ PhraseIn(<<"already", "exists">>, lower(r.body))
       \/ PhraseIn(<<"unique">>, lower(r.body))

create_category ==
    /\ pc = "create"
    /\ script = "seed_categories"
    /\ LET name == DEFAULT_CATEGORIES[pos.zone]
       IN /\ req' = Request("POST", "category", name, None)
          /\ \E r \in CreateAnswers("category", name, None) :
              /\ Created(r, "category", name, None)
              /\ resp' = r
              /\ IF r.status = 201
                 THEN out' = "created" /\ seed_categories
                 ELSE IF IsConflict(r)
                 THEN out' = "exists" /\ pc' = "lookup" /\ UNCHANGED <<pos, exitCode>>
                 ELSE out' = "failed" /\ seed_categories
    /\ UNCHANGED <<cfg, levels, run, script, attempt, session, cache, ids, crashed, prev>>

get_existing_category ==
    /\ pc = "lookup"
    /\ script = "seed_categories"
    /\ LET name == DEFAULT_CATEGORIES[pos.zone]
       IN /\ req' = Request("GET", "category", name, None)
          /\ \E r \in ListAnswers("category", name, None) :
              /\ resp' = r
              /\ faults' = IF r.fault THEN faults + 1 ELSE faults
              /\ IF r.status = 200 /\ Truthy(r)
                 THEN IF Results(r) = << >>
                      THEN out' = "IndexError" /\ Raise /\ UNCHANGED pos
                      ELSE /\ out' = IF Results(r)[1].pk # None THEN "found" ELSE "nothing"
                           /\ seed_categories
                           /\ UNCHANGED crashed
                 ELSE out' = "nothing" /\ seed_categories /\ UNCHANGED crashed
    /\ UNCHANGED <<cfg, resources, nextPk, levels, run, script, attempt,
                   session, cache, ids, prev>>

---------------------------------------------------------------------------
(* seed_parts.py: PartsSeeder *)

EXAMPLE_PARTS == <<
    [category |-> "GPU", parts |-> <<
        "NVIDIA GeForce RTX 4090", "NVIDIA GeForce RTX 4080 Super",
        "NVIDIA GeForce RTX 4070 Ti", "AMD Radeon RX 7900 XTX",
        "AMD Radeon RX 7800 XT">>],
    [category |-> "CPU", parts |-> <<
        "Intel Core i9-14900K", "Intel Core i7-14700K", "Intel Core i5-14600K",
        "AMD Ryzen 9 7950X", "AMD Ryzen 7 7800X3D", "AMD Ryzen 5 7600X">>],
    [category |-> "RAM", parts |-> <<
        "Corsair Vengeance DDR5 32GB (2x16GB)",
        "G.Skill Trident Z5 RGB DDR5 64GB (2x32GB)",
        "Kingston Fury Beast DDR5 16GB (2x8GB)",
        "Corsair Dominator Platinum DDR5 32GB (2x16GB)">>],
    [category |-> "SSD", parts |-> <<
        "Samsung 990 Pro 2TB", "Samsung 990 Pro 1TB", "WD Black SN850X 2TB",
        "Crucial T700 2TB", "SK Hynix Platinum P41 1TB">>],
    [category |-> "PSU", parts |-> <<
        "Corsair RM1000x 1000W", "Corsair RM850x 850W",
        "Seasonic Prime TX-1000 1000W", "be quiet! Dark Power Pro 12 1200W",
        "EVGA SuperNOVA 750 G7 750W">>],
    [category |-> "Motherboard", parts |-> <<
        "ASUS ROG Maximus Z790 Hero", "MSI MPG Z790 Carbon WiFi",
        "Gigabyte Z790 AORUS Master", "ASUS ROG Crosshair X670E Hero",
        "MSI MEG X670E ACE", "ASRock B650E Steel Legend">>] >>

(* The answers to GET /part/category/?limit=100. *)
CategoryListAnswers ==
    IF ~Authorized
    THEN {ListAnswer(401, FALSE, FALSE, <<>>, FALSE)}
    ELSE {ListAnswer(200, isList, TRUE, items, FALSE) :
             isList \in BOOLEAN,
             items \in Listed({r \in resources : r.kind = "category"})}
         \cup (IF CanFail THEN {ListAnswer(500, FALSE, FALSE, <<>>, TRUE)} ELSE {})

RECURSIVE Cached(_, _)
(* for cat in categories: self.categories[cat["name"]] = cat["pk"] *)
Cached(c, items) ==
    IF items = << >> THEN c
    ELSE Cached((items[1].name :> items[1].pk) @@ c, Tail(items))

(* self.categories after load_categories read answer r; iterating a       *)
(* paginated object without "results" raises inside the try block.         *)
load_categories_cache(r) ==
    IF r.status = 200 /\ (r.isList \/ r.hasResults) THEN Cached(cache, r.items) ELSE cache

load_categories ==
    /\ pc = "load"
    /\ script = "seed_parts"
    /\ \E r \in CategoryListAnswers :
        /\ resp' = r
        /\ faults' = IF r.fault THEN faults + 1 ELSE faults
        /\ cache' = load_categories_cache(r)
        /\ out' = IF r.status = 200 THEN "loaded" ELSE "not loaded"
    /\ req' = Request("GET", "category", "", None)
    /\ pc' = "create"
    /\ UNCHANGED <<cfg, resources, nextPk, levels, run, script, attempt,
                   session, pos, ids, exitCode, crashed, prev>>

NextCategory(p) ==
    IF p.zone < Len(EXAMPLE_PARTS) THEN Pos("category", p.zone + 1, 0, 0) ELSE Pos("end", 0, 0, 0)

NextPart(p) ==
    IF p.col < Len(EXAMPLE_PARTS[p.zone].parts)
    THEN Pos("part", p.zone, p.col + 1, 0)
    ELSE NextCategory(p)

(* PartsSeeder.seed leaving the loop at the first category without an id. *)
seed_category_breaks(cat_id) ==
    LET q == IF cat_id # None THEN NextPart(pos) ELSE Pos("end", 0, 0, 0)
    IN /\ pos' = q
       /\ ids' = [ids EXCEPT !.cat_id = cat_id]
       /\ IF q.lvl = "end" THEN Exit(0) ELSE pc' = "create" /\ UNCHANGED exitCode

(* PartsSeeder.seed after create_category returned cat_id. *)
seed_category(cat_id) ==
    LET q == IF cat_id # None THEN NextPart(pos) ELSE NextCategory(pos)
    IN /\ pos' = q
       /\ ids' = [ids EXCEPT !.cat_id = cat_id]
       /\ IF q.lvl = "end" THEN Exit(0) ELSE pc' = "create" /\ UNCHANGED exitCode

(* PartsSeeder.seed after create_part returned. *)
seed_part ==
    LET q == NextPart(pos)
    IN /\ pos' = q
       /\ IF q.lvl = "end" THEN Exit(0) ELSE pc' = "create" /\ UNCHANGED exitCode

(* PartsSeeder.create_category with the name already in self.categories. *)
parts_cached_category ==
    /\ pc = "create"
    /\ script = "seed_parts"
    /\ pos.lvl = "category"
    /\ EXAMPLE_PARTS[pos.zone].category \in DOMAIN cache
    /\ out' = "cached"
    /\ seed_category(cache[EXAMPLE_PARTS[pos.zone].category])
    /\ UNCHANGED <<cfg, resources, nextPk, faults, levels, run, script, attempt,
                   session, cache, resp, req, crashed, prev>>

parts_create_category ==
    /\ pc = "create"
    /\ script = "seed_parts"
    /\ pos.lvl = "category"
    /\ EXAMPLE_PARTS[pos.zone].category \notin DOMAIN cache
    /\ LET name == EXAMPLE_PARTS[pos.zone].category
       IN /\ req' = Request("POST", "category", name, None)
          /\ \E r \in CreateAnswers("category", name, None) :
              /\ Created(r, "category", name, None)
              /\ resp' = r
              /\ IF r.status = 201
                 THEN /\ cache' = (name :> r.pk) @@ cache
                      /\ out' = "created"
                      /\ seed_category(r.pk)
                 ELSE IF r.status = 400
                 THEN /\ out' = "exists"
                      /\ pc' = "reload"
                      /\ UNCHANGED <<cache, pos, ids, exitCode>>
                 ELSE /\ out' = "failed"
                      /\ UNCHANGED cache
                      /\ seed_category(None)
    /\ UNCHANGED <<cfg, levels, run, script, attempt, session, crashed, prev>>

(* load_categories called by create_category after a 400, then            *)
(* return self.categories.get(name).                                       *)
parts_reload_categories ==
    /\ pc = "reload"
    /\ script = "seed_parts"
    /\ LET name == EXAMPLE_PARTS[pos.zone].category
       IN \E r \in CategoryListAnswers :
            /\ resp' = r
            /\ faults' = IF r.fault THEN faults + 1 ELSE faults
            /\ cache' = load_categories_cache(r)
            /\ out' = IF name \in DOMAIN load_categories_cache(r) THEN "found" ELSE "nothing"
            /\ seed_category(IF name \in DOMAIN load_categories_cache(r)
                             THEN load_categories_cache(r)[name] ELSE None)
    /\ req' = Request("GET", "category", "", None)
    /\ UNCHANGED <<cfg, resources, nextPk, levels, run, script, attempt,
                   session, crashed, prev>>

create_part ==
    /\ pc = "create"
    /\ script = "seed_parts"
    /\ pos.lvl = "part"
    /\ LET name == EXAMPLE_PARTS[pos.zone].parts[pos.col]
       IN /\ req' = Request("POST", "part", name, ids.cat_id)
          /\ \E r \in CreateAnswers("part", name, ids.cat_id) :
              /\ Created(r, "part", name, ids.cat_id)
              /\ resp' = r
              /\ out' = IF r.status = 201 THEN "created"
                        ELSE IF IsConflict(r) THEN "exists" ELSE "failed"
          /\ seed_part
    /\ UNCHANGED <<cfg, levels, run, script, attempt, session, cache, ids, crashed, prev>>

---------------------------------------------------------------------------
(* seed_tenants.py: TenantSeeder.seed_tenant, per tenant (pos.level):      *)
(* the group, the root location, then the grid of sub-locations.           *)

group_name(p) == "tenant_" \o DEFAULT_TENANTS[p.level].name

location_name(p) == DEFAULT_TENANTS[p.level].display_name \o " Warehouse"

subloc_name(p) == zones[p.zone] \o "-" \o ToString(p.col)

TenantKind(p) == IF p.lvl = "group" THEN "group" ELSE "location"

TenantName(p) ==
    CASE p.lvl = "group" -> group_name(p)
      [] p.lvl = "root" -> location_name(p)
      [] p.lvl = "sub" -> subloc_name(p)

TenantParent(p, i) == IF p.lvl = "sub" THEN i.location_id ELSE None

NextTenant(p) ==
    IF p.level < Len(DEFAULT_TENANTS) THEN Pos("group", 0, 0, p.level + 1) ELSE Pos("end", 0, 0, 0)

NextSubloc(p) ==
    IF p.col < columns THEN Pos("sub", p.zone, p.col + 1, p.level)
    ELSE IF p.zone < Len(zones) THEN Pos("sub", p.zone + 1, 1, p.level)
    ELSE NextTenant(p)

TenantNext(p, result) ==
    CASE p.lvl = "group" -> Pos("root", 0, 0, p.level)
      [] p.lvl = "root" -> IF result # None THEN Pos("sub", 1, 1, p.level) ELSE NextTenant(p)
      [] p.lvl = "sub" -> NextSubloc(p)

(* seed_tenant / run after get_or_create_* returned `result`. *)
seed_tenant(result) ==
    LET q == TenantNext(pos, result)
    IN /\ pos' = q
       /\ ids' = CASE pos.lvl = "group" -> [ids EXCEPT !.group_id = result]
                   [] pos.lvl = "root" -> [ids EXCEPT !.location_id = result]
                   [] OTHER -> ids
       /\ IF q.lvl = "end" THEN Exit(0) ELSE pc' = "get" /\ UNCHANGED exitCode

(* The resources of a listed answer whose name is exactly `name`; only a  *)
(* plain list is searched.                                                 *)
NamedIn(r, name) ==
    IF r.status = 200 /\ r.isList
    THEN SelectSeq(r.items, LAMBDA g : g.name = name)
    ELSE << >>

(* The existence check of get_or_create_group / get_or_create_location. *)
get_or_create_get ==
    /\ pc = "get"
    /\ script = "seed_tenants"
    /\ LET kind == TenantKind(pos)
           name == TenantName(pos)
           parent == TenantParent(pos, ids)
       IN /\ req' = Request("GET", kind, name, parent)
          /\ \E r \in ListAnswers(kind, name, parent) :
              /\ resp' = r
              /\ faults' = IF r.fault THEN faults + 1 ELSE faults
              /\ IF NamedIn(r, name) # << >>
                 THEN out' = "exists" /\ seed_tenant(NamedIn(r, name)[1].pk)
                 ELSE out' = "missing" /\ pc' = "post" /\ UNCHANGED <<pos, ids, exitCode>>
    /\ UNCHANGED <<cfg, resources, nextPk, levels, run, script, attempt,
                   session, cache, crashed, prev>>

(* The create request of get_or_create_group / get_or_create_location. *)
get_or_create_post ==
    /\ pc = "post"
    /\ script = "seed_tenants"
    /\ LET kind == TenantKind(pos)
           name == TenantName(pos)
           parent == TenantParent(pos, ids)
       IN /\ req' = Request("POST", kind, name, parent)
          /\ \E r \in CreateAnswers(kind, name, parent) :
              /\ Created(r, kind, name, parent)
              /\ resp' = r
              /\ IF r.status \in {200, 201}
                 THEN out' = "created" /\ seed_tenant(r.pk)
                 ELSE out' = "failed" /\ seed_tenant(None)
    /\ UNCHANGED <<cfg, levels, run, script, attempt, session, cache, crashed, prev>>

---------------------------------------------------------------------------
(* Whether the exited execution got past readiness and authentication. *)
Seeding == out \notin {"unavailable", "auth failed"}

(* The operator starts another script once the running one has exited. *)
StartRun ==
    /\ pc = "exit"
    /\ run < MaxRuns
    /\ run' = run + 1
    /\ \E s \in Scripts : Construct(s)
    /\ prev' = [script |-> script, seeding |-> Seeding]
    /\ UNCHANGED <<cfg, resources, nextPk, faults, levels>>

Started(s) ==
    /\ script = s
    /\ pc = "poll"
    /\ attempt = 0
    /\ session = NewSession(s)
    /\ cache = << >>
    /\ pos = FirstPos(s)
    /\ ids = NoIds
    /\ resp = NoResp
    /\ out = "start"
    /\ req = NoReq
    /\ exitCode = -1
    /\ crashed = FALSE

(* A fresh server and the first script about to run. *)
Fresh ==
    /\ resources = {}
    /\ nextPk = 1
    /\ run = 1
    /\ prev = [script |-> "none", seeding |-> FALSE]
    /\ \E s \in Scripts : Started(s)

(* Servers that may give faulty answers: valid credentials, tokens issued. *)
FaultyConfigs ==
    {c \in Configs : /\ c.creds
                     /\ c.token = "issued"
                     /\ c.wording \in {<<"already", "exists">>,
                                       <<"must", "make", "a", "unique", "set">>}}

Init ==
    /\ Fresh
    /\ cfg \in FaultyConfigs
    /\ faults = 0
    /\ levels = MaxLevels

Next ==
    \/ Probe
    \/ get_api_token
    \/ authenticate
    \/ authenticate_basic
    \/ create_location
    \/ get_existing_location
    \/ create_category
    \/ get_existing_category
    \/ load_categories
    \/ parts_cached_category
    \/ parts_create_category
    \/ parts_reload_categories
    \/ create_part
    \/ get_or_create_get
    \/ get_or_create_post
    \/ StartRun

Spec == Init /\ [][Next]_vars

(* A server that gives no faulty answer, and the warehouse at full size. *)
InitReliable ==
    /\ Fresh
    /\ cfg \in Configs
    /\ faults = MaxFaults
    /\ levels = LEVELS

NextReliable ==
    \/ Probe
    \/ get_api_token
    \/ authenticate
    \/ authenticate_basic
    \/ create_location
    \/ get_existing_location
    \/ create_category
    \/ get_existing_category
    \/ load_categories
    \/ parts_cached_category
    \/ parts_create_category
    \/ create_part
    \/ get_or_create_get
    \/ get_or_create_post
    \/ StartRun

SpecReliable == InitReliable /\ [][NextReliable]_vars

---------------------------------------------------------------------------
(* Properties of the seeders.                                              *)

(* The last request was a create request and the last step handled its    *)
(* answer, which is resp.                                                  *)
CreateAnswered ==
    /\ req.method = "POST"
    /\ req.kind # "token"
    /\ out \in {"created", "exists", "failed"}

(* The last step was a name lookup of seed_categories or seed_locations. *)
LookupAnswered ==
    /\ script \in {"seed_categories", "seed_locations"}
    /\ req.method = "GET"
    /\ req.kind \in {"category", "location"}

(* The error body reads 'already exists' in some letter case. *)
AlreadyExists(body) ==
    \E i \in 1..(Len(body) - 1) :
        /\ body[i] \in {"already", "Already", "ALREADY"}
        /\ body[i + 1] \in {"exists", "Exists", "EXISTS"}

(* The server rejects a duplicate name, whatever its parent, with a 400   *)
(* whose body reads 'already exists'.                                      *)
RejectsDuplicateNames == cfg.scope = "name" /\ AlreadyExists(cfg.wording)

(* The name the running script requests at loop position p. *)
NodeName(s, p) ==
    CASE s = "seed_locations" -> LocationName(p)
      [] s = "seed_categories" -> DEFAULT_CATEGORIES[p.zone]
      [] s = "seed_parts" -> IF p.lvl = "category"
                             THEN EXAMPLE_PARTS[p.zone].category
                             ELSE EXAMPLE_PARTS[p.zone].parts[p.col]
      [] s = "seed_tenants" -> TenantName(p)

(* C1: against a server that rejects a duplicate name with 400 'already    *)
(* exists', an execution of a seeder that directly follows an execution of *)
(* the same seeder leaves the set of remote resources as the first left it *)
(* : no step of the second execution changes the resources.                *)
C1_SecondRunChangesNothing ==
    [][(prev.script = script /\ prev.seeding /\ RejectsDuplicateNames)
          => resources' = resources]_vars

(* A second execution of seed_locations has walked the whole warehouse,   *)
(* every node answered as existing, and ends successfully.                *)
C1_SecondRunReached ==
    /\ prev.script = "seed_locations"
    /\ script = "seed_locations"
    /\ prev.seeding
    /\ RejectsDuplicateNames
    /\ pc = "exit"
    /\ exitCode = 0
    /\ out = "found"
    /\ req.name = "B-4-7"
    /\ resources # {}

C3_ConflictResolved ==
    /\ ( /\ CreateAnswered
         /\ \/ script \in {"seed_categories", "seed_locations"}
            \/ script = "seed_parts" /\ req.kind = "part"
         /\ resp.status = 400
         /\ AlreadyExists(resp.body) )
       => /\ out = "exists"
          /\ ~crashed
          /\ exitCode # 1
          /\ req.kind # "part" => pc = "lookup"
    /\ LookupAnswered
       => /\ out = "found"
          /\ ~crashed
          /\ exitCode # 1
          /\ Results(resp)[1].name = req.name

(* The last location of the warehouse was rejected with a capitalised     *)
(* 'Already Exists', found by the lookup, and the run ended successfully.  *)
C3_ConflictLookedUp ==
    /\ script = "seed_locations"
    /\ LookupAnswered
    /\ cfg.wording = <<"Name", "Already", "Exists">>
    /\ out = "found"
    /\ pc = "exit"
    /\ exitCode = 0

(* C3, its last part: once a create was rejected as already existing and  *)
(* the lookup was made, the run has not ended with an error: the conflict  *)
(* is never propagated as a fatal error.                                   *)
C3_ConflictNeverFatal ==
    LookupAnswered => (~crashed /\ exitCode # 1)

(* The create request just answered was refused for a reason other than   *)
(* a uniqueness conflict (validation, permission or server error).         *)
CreateRefused == CreateAnswered /\ resp.fault

RootRefused == script = "seed_locations" /\ req.name = "Warehouse"

RetryBudget(s) ==
    CASE s \in {"seed_categories", "seed_locations"} -> 30
      [] s = "seed_parts" -> 15
      [] s = "seed_tenants" -> 12

(* C5: a readiness poll none of whose probes is accepted sends exactly    *)
(* max_retries probes (30, 30, 15 and 12 in the four scripts), reports the *)
(* API as unavailable and sends no further probe.                          *)
C5_ReadinessBound ==
    /\ attempt <= RetryBudget(script)
    /\ pc = "poll" => (attempt < RetryBudget(script) /\ out \in {"start", "retrying"})
    /\ out = "retrying" => pc = "poll"
    /\ out = "unavailable" => (attempt = RetryBudget(script) /\ pc = "exit")

(* seed_parts gave up after its 15th probe. *)
C5_BudgetExhausted ==
    /\ script = "seed_parts"
    /\ out = "unavailable"
    /\ attempt = 15
    /\ resp.status = 503

(* C6: in every script the poll reports the API as ready at a probe       *)
(* answered 200, 401 or 403, and for no other status.                      *)
C6_ReadyOnAcceptedStatus ==
    /\ out \in {"retrying", "unavailable"} => resp.status \notin {200, 401, 403}
    /\ out = "ready" => resp.status \in {200, 401, 403}

(* C7: when the readiness poll fails the process ends with exit code 1,   *)
(* having sent no authentication, lookup or create request; no step of     *)
(* the poll changes the remote resources.                                  *)
C7_PollFailureEndsRun ==
    /\ [](out = "unavailable" =>
            (pc = "exit" /\ exitCode = 1 /\ ~crashed /\ req = NoReq))
    /\ [][pc = "poll" => (resources' = resources /\ req' = NoReq)]_vars

(* The poll of a second execution failed on a server that holds the       *)
(* resources of the first.                                                 *)
C7_PollFailed ==
    /\ out = "unavailable"
    /\ run = 2
    /\ resources # {}
    /\ exitCode = 1

(* The script has made its authentication requests and the server took    *)
(* none of them: no token was issued and the basic credentials are not     *)
(* accepted.                                                               *)
AuthenticationFailed ==
    /\ out \notin {"start", "retrying", "ready", "unavailable"}
    /\ pc # "basic"
    /\ session.header = "none"
    /\ ~cfg.creds

(* C8: in every script a failed authentication (no token issued, basic    *)
(* credentials not accepted) ends the process with exit code 1.            *)
C8_AuthFailureExits ==
    (pc = "exit" /\ AuthenticationFailed) => exitCode = 1

(* The lowest-level leaves of the location tree. *)
Bins ==
    {r \in resources :
        /\ r.kind = "location"
        /\ ~\E c \in resources : c.kind = "location" /\ c.parent = r.pk}

(* seed_warehouse has completed on a server that was empty when it        *)
(* started, and every create succeeded.                                    *)
WarehouseSeeded ==
    /\ run = 1
    /\ script = "seed_locations"
    /\ pc = "exit"
    /\ exitCode = 0
    /\ cfg.creds

(* The total seed_warehouse prints in its summary. *)
total_bins ==
    LET split_columns == COLUMNS_PER_ZONE * Len(ZONES) - 1
    IN (split_columns * levels * 2) + levels

(* C9: after seed_warehouse completed on an initially empty server with   *)
(* every create successful, the number of bins is ((Z*C - 1)*L*2) + L, the *)
(* total the script reports: 105 for 2 zones, 4 columns and 7 levels.      *)
C9_BinCount ==
    WarehouseSeeded =>
        /\ Cardinality(Bins) = ((Len(ZONES) * COLUMNS_PER_ZONE - 1) * levels * 2) + levels
        /\ Cardinality(Bins) = total_bins
        /\ (Len(ZONES) = 2 /\ COLUMNS_PER_ZONE = 4 /\ levels = 7) => Cardinality(Bins) = 105

C9_WarehouseSeeded == WarehouseSeeded /\ levels = 7 /\ Cardinality(Bins) = 105

(* The name the naming convention gives the node at position p. *)
PositionalName(p) ==
    LET z == ZONES[p.zone]
        c == ToString(p.col)
        l == ToString(p.level)
    IN CASE p.lvl = "root" -> "Warehouse"
         [] p.lvl = "zone" -> "Zone-" \o z
         [] p.lvl = "column" -> z \o "-" \o c
         [] p.lvl = "shelf" -> z \o "-" \o c \o "-" \o l
         [] p.lvl = "binA" -> z \o "-" \o c \o "-" \o l \o "-A"
         [] p.lvl = "binB" -> z \o "-" \o c \o "-" \o l \o "-B"

(* The place of position p in the traversal zone, column, shelf, A, B. *)
Rank(p) ==
    p.zone * 1000 + p.col * 100 + p.level * 10
        + (CASE p.lvl = "binA" -> 1 [] p.lvl = "binB" -> 2 [] OTHER -> 0)

(* C10: every request of seed_warehouse names its node by position alone  *)
(* ('z-c', 'z-c-l', 'z-c-l-A', 'z-c-l-B'), whatever the server answered    *)
(* before, and the positions are visited in one fixed increasing order, so *)
(* two runs send the same names in the same order for the nodes they both  *)
(* reach.                                                                  *)
C10_NamesByPosition ==
    [][(script = "seed_locations" /\ pc \in {"create", "lookup"})
          => /\ req'.name = PositionalName(pos)
             /\ pc' = "lookup" => pos' = pos
             /\ pc' = "create" => Rank(pos') > Rank(pos)]_vars

(* A bin was requested after the server had given a faulty answer. *)
C10_BinRequested ==
    /\ script = "seed_locations"
    /\ req.method = "POST"
    /\ req.name = "B-3-2-B"
    /\ faults = 1
    /\ run = 2

(* The error body reads 'unique' in some letter case. *)
UniqueWord(body) ==
    \E i \in 1..Len(body) : body[i] \in {"unique", "Unique", "UNIQUE"}

(* C11: every upsert of the three class-based seeders takes a 400 answer  *)
(* as a uniqueness conflict exactly when its body reads 'already exists'   *)
(* or 'unique' in any letter case, and then turns to the lookup by name.   *)
C11_ConflictClassification ==
    (CreateAnswered /\ script # "seed_tenants" /\ resp.status = 400)
        => /\ out = "exists" <=> (AlreadyExists(resp.body) \/ UniqueWord(resp.body))
           /\ (out = "exists" /\ req.kind # "part") => pc \in {"lookup", "reload"}

(* The identifier seed_warehouse holds for the parent of the node at p. *)
ThreadedParent(p, i) ==
    CASE p.lvl = "root" -> 0
      [] p.lvl = "zone" -> i.warehouse_id
      [] p.lvl = "column" -> i.zone_id
      [] p.lvl = "shelf" -> i.column_id
      [] p.lvl \in {"binA", "binB"} -> i.shelf_id

(* The identifier seed_warehouse holds for the node at p itself. *)
ThreadedSelf(p, i) ==
    CASE p.lvl = "root" -> i.warehouse_id
      [] p.lvl = "zone" -> i.zone_id
      [] p.lvl = "column" -> i.column_id
      [] p.lvl = "shelf" -> i.shelf_id

(* Position q lies below position p in the warehouse tree. *)
Below(q, p) ==
    CASE p.lvl = "root" -> q.lvl \in {"zone", "column", "shelf", "binA", "binB"}
      [] p.lvl = "zone" -> q.lvl \in {"column", "shelf", "binA", "binB"} /\ q.zone = p.zone
      [] p.lvl = "column" -> /\ q.lvl \in {"shelf", "binA", "binB"}
                             /\ q.zone = p.zone /\ q.col = p.col
      [] p.lvl = "shelf" -> /\ q.lvl \in {"binA", "binB"}
                            /\ q.zone = p.zone /\ q.col = p.col /\ q.level = p.level
      [] OTHER -> FALSE

(* C12: in seed_warehouse every create request carries as parent the      *)
(* identifier held for its parent node, which is the identifier the upsert *)
(* of that node returned (by creation or by lookup) and changes at no      *)
(* other step; after an upsert that returned nothing, no node below it is  *)
(* requested.                                                              *)
C12_ParentThreading ==
    [][(script = "seed_locations" /\ pc \in {"create", "lookup"})
          => /\ pc = "create"
                => /\ req'.method = "POST"
                   /\ req'.parent = ThreadedParent(pos, ids)
                   /\ pos.lvl # "root" => req'.parent # 0
             /\ out' = "created"
                => (pos.lvl \notin {"binA", "binB"} => ThreadedSelf(pos, ids') = resp'.pk)
             /\ out' = "found"
                => (pos.lvl \notin {"binA", "binB"}
                       => ThreadedSelf(pos, ids') = resp'.items[1].pk)
             /\ out' \in {"failed", "nothing"} => (~Below(pos', pos) /\ ids' = ids)
             /\ out' = "exists" => (pos' = pos /\ ids' = ids)
             /\ \A q \in {"root", "zone", "column", "shelf"} :
                   LET n == [lvl |-> q]
                   IN ThreadedSelf(n, ids') # ThreadedSelf(n, ids)
                         => (pos.lvl = q /\ out' \in {"created", "found"})]_vars

(* A bin of zone B was requested under the shelf just created, after the  *)
(* server had refused an earlier node.                                     *)
C12_BinUnderShelf ==
    /\ script = "seed_locations"
    /\ req.method = "POST"
    /\ req.name = "B-1-1-A"
    /\ req.parent = ids.shelf_id
    /\ req.parent # 0
    /\ faults = 1

(* C13: the resource a lookup after a conflict returns has exactly the    *)
(* name of the rejected create request and lies under the parent that      *)
(* request named.                                                          *)
C13_LookupFindsRequested ==
    [][(script \in {"seed_categories", "seed_locations"} /\ pc = "lookup" /\ out' = "found")
          => /\ req.method = "POST"
             /\ resp'.items[1].name = req.name
             /\ resp'.items[1].parent = req.parent]_vars

(* C14: get_or_create_group and get_or_create_location turn to the create *)
(* request only when the server, having answered the existence check with  *)
(* 200 in either shape, holds no resource of that name (under the given    *)
(* parent, when one is given).                                             *)
C14_CreateOnlyWhenMissing ==
    (script = "seed_tenants" /\ pc = "post" /\ resp.status = 200)
        => ~\E r \in resources :
               /\ r.kind = req.kind
               /\ r.name = req.name
               /\ req.parent # 0 => r.parent = req.parent

(* The bin names of the exempted column. *)
ExemptBinNames ==
    {"B-4-" \o ToString(l) \o side : l \in 1..levels, side \in {"-A", "-B"}}

SameShelf(q, p) == q.zone = p.zone /\ q.col = p.col /\ q.level = p.level

(* C15: seed_warehouse never names a bin of column B-4 in a request; once *)
(* the upsert of a shelf of another column returned a resource, the next   *)
(* request creates its bin A, and when the upsert of bin A is over the     *)
(* next request creates its bin B; a bin is reached in no other way, so    *)
(* each is requested once, A before B.                                     *)
C15_BinsOfSplitShelves ==
    [][(script = "seed_locations" /\ pc \in {"create", "lookup"})
          => /\ req'.name \notin ExemptBinNames
             /\ ( /\ pos.lvl = "shelf"
                  /\ out' \in {"created", "found"}
                  /\ ~(ZONES[pos.zone] = "B" /\ pos.col = 4) )
                => (pc' = "create" /\ pos'.lvl = "binA" /\ SameShelf(pos', pos))
             /\ (pos.lvl = "binA" /\ pc' # "lookup")
                => (pc' = "create" /\ pos'.lvl = "binB" /\ SameShelf(pos', pos))
             /\ (pos.lvl = "binB" /\ pc' # "lookup")
                => pos'.lvl \notin {"binA", "binB"}
             /\ (pos' # pos /\ pos'.lvl = "binA")
                => (pos.lvl = "shelf" /\ SameShelf(pos', pos) /\ out' \in {"created", "found"})
             /\ (pos' # pos /\ pos'.lvl = "binB")
                => (pos.lvl = "binA" /\ SameShelf(pos', pos))
             /\ (pc = "create" /\ pos.lvl \in {"binA", "binB"})
                => (req'.method = "POST" /\ req'.parent = ids.shelf_id)]_vars

(* The step is a return of create_location or of PartsSeeder's             *)
(* create_category with an identifier.                                     *)
ReturnsId ==
    /\ \/ script = "seed_locations" /\ pc \in {"create", "lookup"}
       \/ script = "seed_parts" /\ pc \in {"create", "reload"} /\ pos.lvl = "category"
    /\ out' \in {"created", "found", "cached"}

(* The name the upsert in progress is about. *)
UpsertName ==
    IF script = "seed_locations" THEN LocationName(pos)
    ELSE EXAMPLE_PARTS[pos.zone].category

(* The identifier the returning step hands back: the pk of the created     *)
(* resource, of the first lookup result, or the cached one.                *)
ReturnedId ==
    CASE out' = "created" -> resp'.pk
      [] out' = "found" /\ script = "seed_locations" -> Results(resp')[1].pk
      [] out' = "found" /\ script = "seed_parts" -> ids'.cat_id
      [] OTHER -> cache[UpsertName]

(* C16: when create_location or PartsSeeder.create_category returns an     *)
(* identifier for a name, by creation or by lookup, the name cache maps    *)
(* the name to that identifier afterwards; and within a run no name ever   *)
(* leaves the cache.                                                       *)
C16_CacheKeepsReturnedIds ==
    [][ /\ ReturnsId => ( /\ ReturnedId # None
                          /\ UpsertName \in DOMAIN cache'
                          /\ cache'[UpsertName] = ReturnedId )
        /\ run' = run => DOMAIN cache \subseteq DOMAIN cache' ]_vars

(* A location was found by lookup on a second run and is in the cache      *)
(* beside the locations resolved before it.                                *)
C16_LookupCached ==
    /\ script = "seed_locations"
    /\ out = "found"
    /\ req.method = "GET"
    /\ req.name \in DOMAIN cache
    /\ cache[req.name] = resp.items[1].pk
    /\ Cardinality(DOMAIN cache) > 2

(* The token endpoint answered 200 with a non-empty token. *)
TokenObtained == resp.status = 200 /\ resp.token

(* C17: in every script, once the token request is answered, the           *)
(* Authorization header holds a token only if the answer was 200 with a    *)
(* non-empty token; otherwise the header is as it was at construction      *)
(* (absent) and the script has not reported token authentication.          *)
C17_TokenHeaderOnlyWithToken ==
    /\ session.header \in {"none", "token"}
    /\ req.method # "none" /\ req.kind = "token"
          => /\ session.header = "token" => TokenObtained
             /\ ~TokenObtained => (session.header = "none" /\ out # "token")

(* C18: PartsSeeder.seed sends a part create request only from a category  *)
(* whose create_category returned an identifier, and the request carries   *)
(* that identifier (the one the cache holds for the category); when        *)
(* create_category returns none, the next thing processed is the next      *)
(* category, or the normal end of the run after the last one, so no part   *)
(* of the category is requested and the remaining categories are reached.  *)
C18_PartsOnlyUnderCategoryId ==
    [][(script = "seed_parts" /\ pc \in {"create", "reload"})
          => /\ (req'.kind = "part" /\ req' # req)
                => /\ pos.lvl = "part"
                   /\ req'.parent # None
                   /\ EXAMPLE_PARTS[pos.zone].category \in DOMAIN cache
                   /\ req'.parent = cache[EXAMPLE_PARTS[pos.zone].category]
             /\ (pos.lvl = "category" /\ pos'.lvl = "part")
                => /\ out' \in {"created", "found", "cached"}
                   /\ pos'.zone = pos.zone
                   /\ ids'.cat_id # None
                   /\ cache'[EXAMPLE_PARTS[pos.zone].category] = ids'.cat_id
             /\ (pos.lvl = "category" /\ out' \in {"failed", "nothing"})
                => /\ ~crashed'
                   /\ IF pos.zone < Len(EXAMPLE_PARTS)
                      THEN pc' = "create" /\ pos'.lvl = "category" /\ pos'.zone = pos.zone + 1
                      ELSE pc' = "exit" /\ exitCode' = 0]_vars

(* The first category got no identifier and the second is next. *)
C18_CategorySkipped ==
    /\ script = "seed_parts"
    /\ pc = "create"
    /\ out \in {"failed", "nothing"}
    /\ pos.lvl = "category"
    /\ pos.zone = 2
    /\ ~\E r \in resources : r.kind = "part"

(* The lookup was answered 200 without a resource: an empty list, or a     *)
(* paginated body whose result list is empty or absent.                    *)
LookupFoundNothing ==
    /\ LookupAnswered
    /\ resp.status = 200
    /\ resp.items = << >>

(* C19: after a create rejected as a conflict, when the name lookup is     *)
(* answered without a resource, create_category and create_location        *)
(* return no resource and no error escapes: the script has not ended with  *)
(* a traceback.                                                            *)
C19_EmptyLookupSkips ==
    LookupFoundNothing => (out = "nothing" /\ ~crashed)

=============================================================================
